---- MODULE Spec2Model ----
(***************************************************************************)
(* Model of pkg/certstorage (certstorage.go): the GCS adapter that gives   *)
(* certmagic a Storage (Store/Load/Delete/Exists/List/Stat) and a Locker   *)
(* (Lock/Unlock) on top of an object store client (gcsops.Client) and a    *)
(* distributed mutex (gcslock.Mutex).  Several adapters (one per process)  *)
(* share one bucket; each adapter is called from several goroutines.       *)
(* Strings are sequences of one-character strings.                         *)
(***************************************************************************)
EXTENDS Integers, Sequences, FiniteSets, TLC

VARIABLES
    locks,   \* locks[p]: gcs.locks of adapter p, a function name -> *gcslock.Mutex
    mu,      \* mu[p]: the goroutine holding gcs.mu of adapter p, or NoThread
    made,    \* made[p][n]: number of mutexes gcslock.NewMutex returned to p for n
    dlock,   \* dlock[fullName]: the instance owning the distributed lock, or NoInst
    pc,      \* pc[t]: the line goroutine t stands at ("idle" between calls)
    arg,     \* arg[t]: the name argument of t's call in progress
    lock,    \* lock[t]: the local variable lock of t's call
    ok,      \* ok[t]: the local variable ok of t's call
    ret,     \* what the call that returned last returned
    event,   \* the last monkit event emitted, with whether it was the name's first
    seen,    \* seen[p][n]: a lock cache event for n was emitted in p
    held,    \* held[t]: names t has locked and not yet asked to unlock
    store,   \* store[k]: the bucket's object at physical key k
    known,   \* known[key]: what the adapter's answers so far say about logical key
    resp,    \* the storage call that returned last: its arguments and results
    ctor,    \* the NewGCS call of this process: its position, locals and results
    cancelled \* cancelled[t]: the ctx of t's call in progress is cancelled

lockVars == <<locks, mu, made, dlock, pc, arg, lock, ok, ret, event, seen, held>>
storeVars == <<store, known, resp>>
ctxVars == <<ctor, cancelled>>
vars == <<lockVars, storeVars, ctxVars>>

----------------------------------------------------------------------------
(* Bounds and the scenario                                                 *)

\* gcslock.NewMutex calls per (adapter, name) the model follows
MaxMade == 2
\* longest payload stored
MaxLen == 1
\* longest path given to NewGCS
MaxPath == 5

Procs == {"p", "q"}
Threads == {"g1", "g2", "h1"}
ProcOf(t) == IF t = "h1" THEN "q" ELSE "p"
NoThread == "none"

Names == {<<"a">>, <<"b">>}
Keys == {<<"k">>, <<"c">>}
Bytes == {0, 1}
Payloads == UNION {[1..n -> Bytes] : n \in 0..MaxLen}
\* upload times the object store stamps objects with (seconds of a minute)
Times == {5, 40}

\* the path given to NewGCS by every process of the fleet
Path == <<"b", "/", "x">>

----------------------------------------------------------------------------
(* NewGCS: strings.Cut(path, "/") and the prefix's trailing slash          *)

RECURSIVE IndexOf(_, _, _)
IndexOf(s, c, i) ==
    IF i > Len(s) THEN 0
    ELSE IF s[i] = c THEN i ELSE IndexOf(s, c, i + 1)

\* strings.Cut(s, "/"): before, after, found
Cut(s) ==
    LET i == IndexOf(s, "/", 1) IN
    IF i = 0 THEN [before |-> s, after |-> <<>>, found |-> FALSE]
    ELSE [before |-> SubSeq(s, 1, i - 1), after |-> SubSeq(s, i + 1, Len(s)),
          found |-> TRUE]

\* strings.TrimSuffix(s, "/"): removes one trailing "/" if there is one
TrimSuffix(s) ==
    IF Len(s) > 0 /\ s[Len(s)] = "/" THEN SubSeq(s, 1, Len(s) - 1) ELSE s

NewGCS(path) ==
    LET c == Cut(path) IN
    [bucket |-> c.before,
     prefix |-> IF c.found THEN TrimSuffix(c.after) \o <<"/">> ELSE c.after]

gcs == NewGCS(Path)

\* paths of the form bucket[/prefix]: a bucket name, then anything
PathChars == {"b", "p", "/"}
Paths ==
    {path \in UNION {[1..n -> PathChars] : n \in 1..MaxPath} : path[1] = "b"}

NoGCS == [bucket |-> <<>>, prefix |-> <<"nil">>]
\* NewGCS has returned gcs, nil
Built(path) ==
    [pc |-> "done", path |-> path, gcs |-> NewGCS(path), client |-> "ok",
     probe |-> "ok", ret |-> NewGCS(path), err |-> <<>>]

----------------------------------------------------------------------------
(* Errors: errs.Class("certstorage") wraps a cause; nil stays nil          *)

Nil == <<>>
ErrConstruct == <<"gcslock: new mutex failed">>
ErrCanceled == <<"context canceled">>
ErrBackend == <<"backend failure">>

Wrap(err) == IF err = Nil THEN Nil ELSE <<"certstorage">> \o err
ErrMutexNotExists == <<"certstorage", "mutex not exists">>

----------------------------------------------------------------------------
(* The distributed mutex primitive, gcslock.Mutex                          *)

NoEvent == [name |-> "none", hit |-> FALSE, first |-> FALSE]

NoInst == [owner |-> "none", name |-> <<>>, serial |-> 0]

\* gcslock.NewMutex(ctx, Options{Name, Bucket, ...})
NewMutex(p, fullName, serial) ==
    [owner |-> p, name |-> fullName, serial |-> serial]

\* the names the primitive is asked for; its state is opaque to the adapter
\* and kept apart from the objects Store and Load see
FullNames == {gcs.prefix \o n : n \in Names}

\* Mutex.Lock returns nil: exclusive ownership of the name was obtained
Acquire(m) ==
    /\ dlock[m.name] = NoInst
    /\ dlock' = [dlock EXCEPT ![m.name] = m]

\* Mutex.Unlock returns nil: ownership is given up
Release(m) ==
    /\ dlock[m.name] = m
    /\ dlock' = [dlock EXCEPT ![m.name] = NoInst]

----------------------------------------------------------------------------
(* Text conversions: strconv.ParseInt, time.Parse(time.RFC1123, _) and the  *)
(* decimal and RFC1123 text the object store puts in its headers            *)

Digits == <<"0", "1", "2", "3", "4", "5", "6", "7", "8", "9">>
IsDigit(c) == \E i \in 1..10 : Digits[i] = c
DigitVal(c) == (CHOOSE i \in 1..10 : Digits[i] = c) - 1

RECURSIVE FormatInt(_)
FormatInt(n) ==
    IF n < 10 THEN <<Digits[n + 1]>>
    ELSE FormatInt(n \div 10) \o <<Digits[(n % 10) + 1]>>

RECURSIVE ParseDigits(_, _)
ParseDigits(s, acc) ==
    IF s = <<>> THEN acc ELSE ParseDigits(Tail(s), 10 * acc + DigitVal(Head(s)))

\* strconv.ParseInt(s, 10, 64) on the lengths the store reports
ParseInt(s) ==
    IF s # <<>> /\ \A i \in 1..Len(s) : IsDigit(s[i])
    THEN [ok |-> TRUE, val |-> ParseDigits(s, 0)]
    ELSE [ok |-> FALSE, val |-> 0]

\* time.RFC1123, "Mon, 02 Jan 2006 15:04:05 MST", of second sec of one minute
DateText == <<"M", "o", "n", ",", " ", "0", "2", " ", "J", "a", "n", " ",
              "2", "0", "0", "6", " ", "1", "5", ":", "0", "4", ":">>
ZoneText == <<" ", "G", "M", "T">>
FormatRFC1123(sec) ==
    DateText \o <<Digits[(sec \div 10) + 1], Digits[(sec % 10) + 1]>> \o ZoneText

\* time.Parse(time.RFC1123, s)
ParseRFC1123(s) ==
    LET n == Len(DateText) IN
    IF /\ Len(s) = n + 2 + Len(ZoneText)
       /\ SubSeq(s, 1, n) = DateText
       /\ IsDigit(s[n + 1]) /\ IsDigit(s[n + 2])
       /\ 10 * DigitVal(s[n + 1]) + DigitVal(s[n + 2]) < 60
       /\ SubSeq(s, n + 3, Len(s)) = ZoneText
    THEN [ok |-> TRUE, val |-> 10 * DigitVal(s[n + 1]) + DigitVal(s[n + 2])]
    ELSE [ok |-> FALSE, val |-> 0]

----------------------------------------------------------------------------
(* The object store client, gcsops.Client, on the adapter's bucket          *)

ErrNotFound == <<"gcsops: not found">>
FsErrNotExist == <<"fs.ErrNotExist">>
ErrParseTime == <<"parsing time">>
ErrParseInt == <<"strconv.ParseInt: invalid syntax">>

\* errs.Is(err, target): target is in err's chain
Is(err, target) == \E i \in 1..Len(err) : err[i] = target[1]

PhysKeys == Keys \cup {gcs.prefix \o k : k \in Keys}

NoObject == [present |-> FALSE, data |-> <<>>, mtime |-> 0]

\* what the backend does to one call: answers it, or fails in transport
Faults == {"none", "transport"}

\* Client.Upload(ctx, nil, bucket, k, body): the store after the call
Upload(k, data, mtime) == [store EXCEPT ![k] = [present |-> TRUE, data |-> data, mtime |-> mtime]]

\* Client.Download(ctx, bucket, k): the error and the stream's content
Download(k, fault) ==
    IF fault = "transport" THEN [err |-> ErrBackend, body |-> <<>>]
    ELSE IF ~store[k].present THEN [err |-> ErrNotFound, body |-> <<>>]
    ELSE [err |-> Nil, body |-> store[k].data]

\* Client.Delete(ctx, nil, bucket, k): the error
DeleteObject(k, fault) ==
    IF fault = "transport" THEN ErrBackend
    ELSE IF ~store[k].present THEN ErrNotFound
    ELSE Nil

\* the keys of the listing fixture, and the prefixes listed
ListKeys == {<<"a", "/", "1">>, <<"a", "/", "2">>, <<"a", "/", "b", "/", "3">>}
ListPrefixes == {<<>>, <<"a", "/">>, <<"a", "/", "b", "/">>}
ListPhysKeys == ListKeys \cup {gcs.prefix \o k : k \in ListKeys}

\* byte order of the characters in use
Alphabet == <<"/", "1", "2", "3", "a", "b", "c", "k", "p", "x">>
Rank(ch) == CHOOSE i \in 1..Len(Alphabet) : Alphabet[i] = ch

RECURSIVE Less(_, _)
Less(a, b) ==
    IF b = <<>> THEN FALSE
    ELSE IF a = <<>> THEN TRUE
    ELSE IF Head(a) # Head(b) THEN Rank(Head(a)) < Rank(Head(b))
    ELSE Less(Tail(a), Tail(b))

RECURSIVE Sorted(_)
Sorted(ks) ==
    IF ks = {} THEN <<>>
    ELSE LET least == CHOOSE k \in ks : \A o \in ks \ {k} : Less(k, o)
         IN <<least>> \o Sorted(ks \ {least})

HasPrefix(k, p) == Len(k) >= Len(p) /\ SubSeq(k, 1, Len(p)) = p
\* k lies directly under p: no separator after the prefix
DirectChild(k, p) == \A i \in Len(p) + 1 .. Len(k) : k[i] # "/"

\* Client.List(ctx, bucket, p, recursive): the error and the keys, in order
ListObjects(p, recursive, fault) ==
    IF fault = "transport" THEN [err |-> ErrBackend, keys |-> <<>>]
    ELSE [err |-> Nil,
          keys |-> Sorted({k \in DOMAIN store :
                             /\ store[k].present
                             /\ HasPrefix(k, p)
                             /\ recursive \/ DirectChild(k, p)})]

\* a response whose last-modified or content-length header is malformed
\* or missing
HeaderFaults == {"badtime", "badsize"}
BadTimeText == <<"0", "5">>
BadSizeText == <<>>

\* Client.Stat(ctx, bucket, k): the error and the headers
StatObject(k, fault) ==
    IF fault = "transport" THEN [err |-> ErrBackend, lastModified |-> <<>>, contentLength |-> <<>>]
    ELSE IF ~store[k].present THEN [err |-> ErrNotFound, lastModified |-> <<>>, contentLength |-> <<>>]
    ELSE [err |-> Nil,
          lastModified |-> IF fault = "badtime" THEN BadTimeText
                           ELSE FormatRFC1123(store[k].mtime),
          contentLength |-> IF fault = "badsize" THEN BadSizeText
                            ELSE FormatInt(Len(store[k].data))]

----------------------------------------------------------------------------
(* What the adapter's answers tell a caller about a logical key             *)

Absent == [st |-> "absent", data |-> <<>>]
Unknown == [st |-> "unknown", data |-> <<>>]
Stored(data) == [st |-> "stored", data |-> data]

NoInfo == [Key |-> <<>>, Modified |-> 0, Size |-> 0, IsTerminal |-> FALSE]
\* before: what was known about the key when the call was made
NoResp == [op |-> "none", key |-> <<>>, before |-> Unknown, fault |-> "none",
           err |-> Nil, data |-> <<>>, exists |-> FALSE, info |-> NoInfo,
           backend |-> Nil, recursive |-> FALSE, list |-> <<>>]

----------------------------------------------------------------------------
InitAdapter ==
    /\ locks = [p \in Procs |-> <<>>]
    /\ mu = [p \in Procs |-> NoThread]
    /\ made = [p \in Procs |-> [n \in Names |-> 0]]
    /\ dlock = [f \in FullNames |-> NoInst]
    /\ pc = [t \in Threads |-> "idle"]
    /\ arg = [t \in Threads |-> <<>>]
    /\ lock = [t \in Threads |-> NoInst]
    /\ ok = [t \in Threads |-> FALSE]
    /\ ret = <<"none">>
    /\ event = NoEvent
    /\ seen = [p \in Procs |-> [n \in Names |-> FALSE]]
    /\ held = [t \in Threads |-> {}]
    /\ resp = NoResp
    /\ cancelled = [t \in Threads |-> FALSE]

\* an empty bucket
InitBucket(phys, keys) ==
    /\ store = [k \in phys |-> NoObject]
    /\ known = [k \in keys |-> Absent]

\* the adapters of the fleet are built
Init == InitAdapter /\ InitBucket(PhysKeys, Keys) /\ ctor = Built(Path)

\* NewGCS is called with some path
InitNew ==
    /\ InitAdapter
    /\ InitBucket(PhysKeys, Keys)
    /\ \E path \in Paths :
           ctor = [pc |-> "L46", path |-> path, gcs |-> NoGCS, client |-> "none",
                   probe |-> "none", ret |-> NoGCS, err |-> <<>>]

----------------------------------------------------------------------------
(* NewGCS                                                                   *)

\* lines 46-57: bucket and prefix from the path; gcs := &GCS{...}
NewGCSSplit ==
    /\ ctor.pc = "L46"
    /\ ctor' = [ctor EXCEPT !.pc = "L59", !.gcs = NewGCS(ctor.path)]
    /\ UNCHANGED <<lockVars, storeVars, cancelled>>

\* lines 59-62: gcsops.NewClient fails; return nil, Error.Wrap(err)
NewClientFail ==
    /\ ctor.pc = "L59"
    /\ ctor' = [ctor EXCEPT !.pc = "done", !.client = "failed",
                            !.ret = NoGCS, !.err = Wrap(ErrBackend)]
    /\ UNCHANGED <<lockVars, storeVars, cancelled>>

\* line 59: gcsops.NewClient succeeds
NewClientOk ==
    /\ ctor.pc = "L59"
    /\ ctor' = [ctor EXCEPT !.pc = "L64", !.client = "ok"]
    /\ UNCHANGED <<lockVars, storeVars, cancelled>>

\* the probe's error is dropped and the adapter returned
TestPermissionsFailIgnored ==
    /\ ctor.pc = "L64"
    /\ ctor' = [ctor EXCEPT !.pc = "done", !.probe = "failed",
                            !.ret = ctor.gcs, !.err = Nil]
    /\ UNCHANGED <<lockVars, storeVars, cancelled>>

\* lines 64-66: client.TestPermissions fails; return nil, Error.Wrap(err)
TestPermissionsFail ==
    /\ ctor.pc = "L64"
    /\ ctor' = [ctor EXCEPT !.pc = "done", !.probe = "failed",
                            !.ret = NoGCS, !.err = Wrap(ErrBackend)]
    /\ UNCHANGED <<lockVars, storeVars, cancelled>>

\* lines 64-68: client.TestPermissions succeeds; return gcs, nil
TestPermissionsOk ==
    /\ ctor.pc = "L64"
    /\ ctor' = [ctor EXCEPT !.pc = "done", !.probe = "ok",
                            !.ret = ctor.gcs, !.err = Nil]
    /\ UNCHANGED <<lockVars, storeVars, cancelled>>

----------------------------------------------------------------------------
(* Callers: a goroutine between calls starts Lock(name) or Unlock(name)    *)

CallLock(t, n) ==
    /\ pc[t] = "idle"
    /\ pc' = [pc EXCEPT ![t] = "L77"]
    /\ arg' = [arg EXCEPT ![t] = n]
    /\ UNCHANGED <<ctxVars, storeVars, locks, mu, made, dlock, lock, ok, ret, event, seen, held>>

CallUnlock(t, n) ==
    /\ pc[t] = "idle"
    /\ pc' = [pc EXCEPT ![t] = "U101"]
    /\ arg' = [arg EXCEPT ![t] = n]
    /\ held' = [held EXCEPT ![t] = @ \ {n}]
    /\ UNCHANGED <<ctxVars, storeVars, locks, mu, made, dlock, lock, ok, ret, event, seen>>

\* the caller's view when a call returns: locals die with the frame
Return(t, err) ==
    /\ pc' = [pc EXCEPT ![t] = "idle"]
    /\ ret' = err
    /\ arg' = [arg EXCEPT ![t] = <<>>]
    /\ lock' = [lock EXCEPT ![t] = NoInst]
    /\ ok' = [ok EXCEPT ![t] = FALSE]

----------------------------------------------------------------------------
(* GCS.Lock                                                                *)

\* Lock without gcs.mu.Lock(): the lookup is not exclusive
LockMuNotExclusive(t) ==
    LET p == ProcOf(t)
        found == arg[t] \in DOMAIN locks[p]
    IN
    /\ pc[t] = "L77"
    /\ ok' = [ok EXCEPT ![t] = found]
    /\ lock' = [lock EXCEPT ![t] = IF found THEN locks[p][arg[t]] ELSE NoInst]
    /\ pc' = [pc EXCEPT ![t] = IF found THEN "L92" ELSE "L80"]
    /\ UNCHANGED <<ctxVars, storeVars, locks, mu, made, dlock, arg, ret, event, seen, held>>

\* lines 77-78: gcs.mu.Lock(); lock, ok := gcs.locks[name]
LockMu(t) ==
    LET p == ProcOf(t)
        found == arg[t] \in DOMAIN locks[p]
    IN
    /\ pc[t] = "L77"
    /\ mu[p] = NoThread
    /\ mu' = [mu EXCEPT ![p] = t]
    /\ ok' = [ok EXCEPT ![t] = found]
    /\ lock' = [lock EXCEPT ![t] = IF found THEN locks[p][arg[t]] ELSE NoInst]
    /\ pc' = [pc EXCEPT ![t] = IF found THEN "L92" ELSE "L80"]
    /\ UNCHANGED <<ctxVars, storeVars, locks, made, dlock, arg, ret, event, seen, held>>

\* lock = m without gcs.locks[name] = m: the new mutex is not cached
LockNewMutexNotCached(t) ==
    LET p == ProcOf(t)
        n == arg[t]
        m == NewMutex(p, gcs.prefix \o n, made[p][n] + 1)
    IN
    /\ pc[t] = "L80"
    /\ made[p][n] < MaxMade
    /\ made' = [made EXCEPT ![p][n] = @ + 1]
    /\ lock' = [lock EXCEPT ![t] = m]
    /\ pc' = [pc EXCEPT ![t] = "L92"]
    /\ UNCHANGED <<ctxVars, storeVars, locks, mu, dlock, arg, ok, ret, event, seen, held>>

\* lines 80-90: gcslock.NewMutex succeeds; gcs.locks[name], lock = m, m
LockNewMutexOk(t) ==
    LET p == ProcOf(t)
        n == arg[t]
        m == NewMutex(p, gcs.prefix \o n, made[p][n] + 1)
    IN
    /\ pc[t] = "L80"
    /\ made[p][n] < MaxMade
    /\ made' = [made EXCEPT ![p][n] = @ + 1]
    /\ locks' = [locks EXCEPT ![p] = (n :> m) @@ @]
    /\ lock' = [lock EXCEPT ![t] = m]
    /\ pc' = [pc EXCEPT ![t] = "L92"]
    /\ UNCHANGED <<ctxVars, storeVars, mu, dlock, arg, ok, ret, event, seen, held>>

\* gcs.locks[name] assigned before err is looked at: a nil mutex is cached
LockNewMutexFailCaches(t) ==
    /\ pc[t] = "L80"
    /\ locks' = [locks EXCEPT ![ProcOf(t)] = (arg[t] :> NoInst) @@ @]
    /\ mu' = [mu EXCEPT ![ProcOf(t)] = NoThread]
    /\ Return(t, Wrap(ErrConstruct))
    /\ UNCHANGED <<ctxVars, storeVars, made, dlock, event, seen, held>>

\* the failure path returns without gcs.mu.Unlock()
LockNewMutexFailKeepsMu(t) ==
    /\ pc[t] = "L80"
    /\ Return(t, Wrap(ErrConstruct))
    /\ UNCHANGED <<ctxVars, storeVars, locks, mu, made, dlock, event, seen, held>>

\* lines 80-88: gcslock.NewMutex fails; gcs.mu.Unlock(); return Error.Wrap(err)
LockNewMutexFail(t) ==
    /\ pc[t] = "L80"
    /\ mu' = [mu EXCEPT ![ProcOf(t)] = NoThread]
    /\ Return(t, Wrap(ErrConstruct))
    /\ UNCHANGED <<ctxVars, storeVars, locks, made, dlock, event, seen, held>>

\* defer gcs.mu.Unlock(): gcs.mu stays held while lock.Lock(ctx) runs
LockMuUnlockDeferred(t) ==
    /\ pc[t] = "L92"
    /\ event' = [name |-> "certstorage_lockcache", hit |-> ok[t],
                 first |-> ~seen[ProcOf(t)][arg[t]]]
    /\ seen' = [seen EXCEPT ![ProcOf(t)][arg[t]] = TRUE]
    /\ pc' = [pc EXCEPT ![t] = "L94"]
    /\ UNCHANGED <<ctxVars, storeVars, locks, mu, made, dlock, arg, lock, ok, ret, held>>

\* lines 92-93: gcs.mu.Unlock(); mon.Event("certstorage_lockcache", hit=ok)
LockMuUnlock(t) ==
    /\ pc[t] = "L92"
    /\ mu' = [mu EXCEPT ![ProcOf(t)] = NoThread]
    /\ event' = [name |-> "certstorage_lockcache", hit |-> ok[t],
                 first |-> ~seen[ProcOf(t)][arg[t]]]
    /\ seen' = [seen EXCEPT ![ProcOf(t)][arg[t]] = TRUE]
    /\ pc' = [pc EXCEPT ![t] = "L94"]
    /\ UNCHANGED <<ctxVars, storeVars, locks, made, dlock, arg, lock, ok, ret, held>>

\* a cache hit returns nil without lock.Lock(ctx)
LockAcquireOkSkipOnHit(t) ==
    /\ pc[t] = "L94"
    /\ IF ok[t] THEN UNCHANGED dlock ELSE Acquire(lock[t])
    /\ held' = [held EXCEPT ![t] = @ \cup {arg[t]}]
    /\ Return(t, Wrap(Nil))
    /\ UNCHANGED <<ctxVars, storeVars, locks, mu, made, event, seen>>

\* line 94: lock.Lock(ctx) returns nil; return Error.Wrap(nil).  The
\* primitive gives the lock to no call whose ctx is cancelled.
LockAcquireOk(t) ==
    /\ pc[t] = "L94"
    /\ ~cancelled[t]
    /\ Acquire(lock[t])
    /\ held' = [held EXCEPT ![t] = @ \cup {arg[t]}]
    /\ Return(t, Wrap(Nil))
    /\ UNCHANGED <<ctxVars, storeVars, locks, mu, made, event, seen>>

\* line 94: lock.Lock(ctx) returns an error (cancellation, backend)
LockAcquireErr(t, err) ==
    /\ pc[t] = "L94"
    /\ Return(t, Wrap(err))
    /\ UNCHANGED <<ctxVars, storeVars, locks, mu, made, dlock, event, seen, held>>

\* the caller cancels ctx while its Lock is blocked in lock.Lock(ctx)
Cancel(t) ==
    /\ pc[t] = "L94"
    /\ ~cancelled[t]
    /\ cancelled' = [cancelled EXCEPT ![t] = TRUE]
    /\ UNCHANGED <<ctor, lockVars, storeVars>>

\* the primitive's error is dropped: return nil
LockAcquireCanceledSwallowed(t) ==
    /\ pc[t] = "L94"
    /\ cancelled[t]
    /\ cancelled' = [cancelled EXCEPT ![t] = FALSE]
    /\ Return(t, Nil)
    /\ UNCHANGED <<ctor, storeVars, locks, mu, made, dlock, event, seen, held>>

\* line 94: lock.Lock(ctx) returns the cancellation error of a cancelled ctx;
\* return Error.Wrap(err)
LockAcquireCanceled(t) ==
    /\ pc[t] = "L94"
    /\ cancelled[t]
    /\ cancelled' = [cancelled EXCEPT ![t] = FALSE]
    /\ Return(t, Wrap(ErrCanceled))
    /\ UNCHANGED <<ctor, storeVars, locks, mu, made, dlock, event, seen, held>>

----------------------------------------------------------------------------
(* GCS.Unlock                                                              *)

\* line 101: gcs.mu.Lock()
UnlockMu(t) ==
    /\ pc[t] = "U101"
    /\ mu[ProcOf(t)] = NoThread
    /\ mu' = [mu EXCEPT ![ProcOf(t)] = t]
    /\ pc' = [pc EXCEPT ![t] = "U102"]
    /\ UNCHANGED <<ctxVars, storeVars, locks, made, dlock, arg, lock, ok, ret, event, seen, held>>

\* Unlock of a name that is not cached answers nil
UnlockNotCachedNil(t) ==
    /\ pc[t] = "U102"
    /\ arg[t] \notin DOMAIN locks[ProcOf(t)]
    /\ mu' = [mu EXCEPT ![ProcOf(t)] = NoThread]
    /\ event' = [name |-> "certstorage_mutex_not_exists", hit |-> FALSE,
                 first |-> FALSE]
    /\ Return(t, Wrap(Nil))
    /\ UNCHANGED <<ctxVars, storeVars, locks, made, dlock, seen, held>>

\* Unlock also refuses a cached name whose lock the instance does not own
UnlockNotCachedOrNotHeld(t) ==
    LET p == ProcOf(t) IN
    /\ pc[t] = "U102"
    /\ \/ arg[t] \notin DOMAIN locks[p]
       \/ /\ arg[t] \in DOMAIN locks[p]
          /\ dlock[locks[p][arg[t]].name] # locks[p][arg[t]]
    /\ mu' = [mu EXCEPT ![p] = NoThread]
    /\ event' = [name |-> "certstorage_mutex_not_exists", hit |-> FALSE,
                 first |-> FALSE]
    /\ Return(t, ErrMutexNotExists)
    /\ UNCHANGED <<ctxVars, storeVars, locks, made, dlock, seen, held>>

\* lines 102-106: not cached; gcs.mu.Unlock(); event; return Error.New(...)
UnlockNotCached(t) ==
    /\ pc[t] = "U102"
    /\ arg[t] \notin DOMAIN locks[ProcOf(t)]
    /\ mu' = [mu EXCEPT ![ProcOf(t)] = NoThread]
    /\ event' = [name |-> "certstorage_mutex_not_exists", hit |-> FALSE,
                 first |-> FALSE]
    /\ Return(t, ErrMutexNotExists)
    /\ UNCHANGED <<ctxVars, storeVars, locks, made, dlock, seen, held>>

\* Unlock drops the cache entry it found
UnlockCachedEvicts(t) ==
    LET p == ProcOf(t) IN
    /\ pc[t] = "U102"
    /\ arg[t] \in DOMAIN locks[p]
    /\ ok' = [ok EXCEPT ![t] = TRUE]
    /\ lock' = [lock EXCEPT ![t] = locks[p][arg[t]]]
    /\ locks' = [locks EXCEPT ![p] = [n \in DOMAIN @ \ {arg[t]} |-> @[n]]]
    /\ mu' = [mu EXCEPT ![p] = NoThread]
    /\ pc' = [pc EXCEPT ![t] = "U109"]
    /\ UNCHANGED <<ctxVars, storeVars, made, dlock, arg, ret, event, seen, held>>

\* lines 102, 108: cached; gcs.mu.Unlock()
UnlockCached(t) ==
    /\ pc[t] = "U102"
    /\ arg[t] \in DOMAIN locks[ProcOf(t)]
    /\ ok' = [ok EXCEPT ![t] = TRUE]
    /\ lock' = [lock EXCEPT ![t] = locks[ProcOf(t)][arg[t]]]
    /\ mu' = [mu EXCEPT ![ProcOf(t)] = NoThread]
    /\ pc' = [pc EXCEPT ![t] = "U109"]
    /\ UNCHANGED <<ctxVars, storeVars, locks, made, dlock, arg, ret, event, seen, held>>

\* a successful release drops the name from the cache
UnlockReleaseOkEvicts(t) ==
    LET p == ProcOf(t) IN
    /\ pc[t] = "U109"
    /\ Release(lock[t])
    /\ locks' = [locks EXCEPT ![p] = [n \in DOMAIN @ \ {arg[t]} |-> @[n]]]
    /\ Return(t, Wrap(Nil))
    /\ UNCHANGED <<ctxVars, storeVars, mu, made, event, seen, held>>

\* line 109: lock.Unlock(ctx) returns nil
UnlockReleaseOk(t) ==
    /\ pc[t] = "U109"
    /\ Release(lock[t])
    /\ Return(t, Wrap(Nil))
    /\ UNCHANGED <<ctxVars, storeVars, locks, mu, made, event, seen, held>>

\* line 109: lock.Unlock(ctx) returns an error; ownership is as it was
UnlockReleaseErr(t, err) ==
    /\ pc[t] = "U109"
    /\ Return(t, Wrap(err))
    /\ UNCHANGED <<ctxVars, storeVars, locks, mu, made, dlock, event, seen, held>>

----------------------------------------------------------------------------
LockStep(t) ==
    \/ LockMu(t)
    \/ LockNewMutexOk(t)
    \/ LockNewMutexFail(t)
    \/ LockMuUnlock(t)
    \/ LockAcquireOk(t)
    \/ \E err \in {ErrCanceled, ErrBackend} : LockAcquireErr(t, err)

UnlockStep(t) ==
    \/ UnlockMu(t)
    \/ UnlockNotCached(t)
    \/ UnlockCached(t)
    \/ UnlockReleaseOk(t)
    \/ \E err \in {ErrCanceled, ErrBackend} : UnlockReleaseErr(t, err)

----------------------------------------------------------------------------
(* GCS.Store, Load, Delete, Exists, Stat.  Each is one call to the client,  *)
(* so each is one step; resp records the call and what it returned.         *)

\* k := gcs.prefix + key, as each method computes it
StoreKey(key) == gcs.prefix \o key
\* Load looks the logical key up without the prefix
LoadKeyUnmapped(key) == key
LoadKey(key) == gcs.prefix \o key
DeleteKey(key) == gcs.prefix \o key
ExistsKey(key) == gcs.prefix \o key
StatKey(key) == gcs.prefix \o key

\* lines 127-136: the error of Download, then io.ReadAll(rc) and rc.Close()
\* every failed download reported as a missing key
LoadResultAllNotFound(dl, readErr, got) ==
    IF dl.err # Nil
    THEN [data |-> <<>>, err |-> Wrap(FsErrNotExist)]
    ELSE IF readErr # Nil
         THEN [data |-> SubSeq(dl.body, 1, got), err |-> Wrap(readErr)]
         ELSE [data |-> dl.body, err |-> Wrap(Nil)]

\* lines 127-136
LoadResult(dl, readErr, got) ==
    IF dl.err # Nil
    THEN IF Is(dl.err, ErrNotFound)
         THEN [data |-> <<>>, err |-> Wrap(FsErrNotExist)]
         ELSE [data |-> <<>>, err |-> Wrap(dl.err)]
    ELSE IF readErr # Nil
         THEN [data |-> SubSeq(dl.body, 1, got), err |-> Wrap(readErr)]
         ELSE [data |-> dl.body, err |-> Wrap(Nil)]

\* the client's not-found is wrapped as it is
DeleteResultRaw(err) == Wrap(err)

\* lines 146-150
DeleteResult(err) ==
    IF Is(err, ErrNotFound) THEN Wrap(FsErrNotExist) ELSE Wrap(err)

\* the test on err is inverted
ExistsResultInverted(st) == st.err # Nil

\* lines 160-161
\* only a missing key counts as absent
ExistsResultNotFoundOnly(st) == ~Is(st.err, ErrNotFound)

ExistsResult(st) == st.err = Nil

\* lines 184-204
\* a header that does not parse is read as zero
StatResultDefaults(k, st) ==
    LET modified == ParseRFC1123(st.lastModified)
        size == ParseInt(st.contentLength)
    IN
    IF st.err # Nil
    THEN IF Is(st.err, ErrNotFound)
         THEN [info |-> NoInfo, err |-> Wrap(FsErrNotExist)]
         ELSE [info |-> NoInfo, err |-> Wrap(st.err)]
    ELSE [info |-> [Key |-> k, Modified |-> modified.val, Size |-> size.val,
                    IsTerminal |-> TRUE],
          err |-> Nil]

StatResult(k, st) ==
    LET modified == ParseRFC1123(st.lastModified)
        size == ParseInt(st.contentLength)
        keyInfo == [NoInfo EXCEPT !.Key = k, !.IsTerminal = TRUE]
    IN
    IF st.err # Nil
    THEN IF Is(st.err, ErrNotFound)
         THEN [info |-> NoInfo, err |-> Wrap(FsErrNotExist)]
         ELSE [info |-> NoInfo, err |-> Wrap(st.err)]
    ELSE IF ~modified.ok
         THEN [info |-> keyInfo, err |-> Wrap(ErrParseTime)]
    ELSE IF ~size.ok
         THEN [info |-> [keyInfo EXCEPT !.Modified = modified.val],
               err |-> Wrap(ErrParseInt)]
    ELSE [info |-> [keyInfo EXCEPT !.Modified = modified.val, !.Size = size.val],
          err |-> Nil]

\* lines 113-118; a failed upload may or may not have reached the bucket
Store(key, value) ==
    \E fault \in Faults, applied \in BOOLEAN, mtime \in Times :
        LET k == StoreKey(key)
            up == IF fault = "none" THEN Nil ELSE ErrBackend
            err == Wrap(up)
        IN
        /\ fault = "none" => applied
        /\ store' = IF applied THEN Upload(k, value, mtime) ELSE store
        /\ known' = [known EXCEPT ![key] = IF err = Nil THEN Stored(value) ELSE Unknown]
        /\ resp' = [NoResp EXCEPT !.op = "Store", !.key = key, !.before = known[key], !.fault = fault,
                                  !.backend = up,
                                  !.err = err, !.data = value]
        /\ UNCHANGED <<ctxVars, lockVars>>

\* lines 121-137
Load(key) ==
    \E fault \in Faults \cup {"read"}, got \in 0..MaxLen :
        LET dl == Download(LoadKey(key), fault)
            r == LoadResult(dl, IF fault = "read" THEN ErrBackend ELSE Nil, got)
        IN
        /\ got <= Len(dl.body)
        /\ fault # "read" => got = Len(dl.body)
        /\ resp' = [NoResp EXCEPT !.op = "Load", !.key = key, !.before = known[key], !.fault = fault,
                                  !.backend = dl.err,
                                  !.err = r.err, !.data = r.data]
        /\ UNCHANGED <<ctxVars, lockVars, store, known>>

\* lines 140-151; a failed delete may or may not have reached the bucket
Delete(key) ==
    \E fault \in Faults, applied \in BOOLEAN :
        LET k == DeleteKey(key)
            del == DeleteObject(k, fault)
            err == DeleteResult(del)
        IN
        /\ fault = "none" => applied
        /\ store' = IF applied THEN [store EXCEPT ![k] = NoObject] ELSE store
        /\ known' = [known EXCEPT ![key] =
                        IF err = Nil \/ Is(err, FsErrNotExist) \/ @ = Absent
                        THEN Absent ELSE Unknown]
        /\ resp' = [NoResp EXCEPT !.op = "Delete", !.key = key, !.before = known[key], !.fault = fault,
                                  !.backend = del,
                                  !.err = err]
        /\ UNCHANGED <<ctxVars, lockVars>>

\* lines 154-162
Exists(key) ==
    \E fault \in Faults :
        LET st == StatObject(ExistsKey(key), fault) IN
        /\ resp' = [NoResp EXCEPT !.op = "Exists", !.key = key, !.before = known[key], !.fault = fault,
                       !.backend = st.err, !.exists = ExistsResult(st)]
        /\ UNCHANGED <<ctxVars, lockVars, store, known>>

\* lines 176-205
Stat(key) ==
    \E fault \in Faults \cup HeaderFaults :
        LET k == StatKey(key)
            st == StatObject(k, fault)
            r == StatResult(k, st)
        IN
        /\ resp' = [NoResp EXCEPT !.op = "Stat", !.key = key, !.before = known[key], !.fault = fault,
                                  !.backend = st.err,
                                  !.err = r.err, !.info = r.info]
        /\ UNCHANGED <<ctxVars, lockVars, store, known>>

\* line 167
ListKey(prefix) == gcs.prefix \o prefix

\* every listing is made recursive
ListRecursiveAlways(recursive) == TRUE

\* line 171: the flag handed to the client
ListRecursive(recursive) == recursive

\* lines 165-173
List(prefix, recursive) ==
    \E fault \in Faults :
        LET r == ListObjects(ListKey(prefix), ListRecursive(recursive), fault) IN
        /\ resp' = [NoResp EXCEPT !.op = "List", !.key = prefix, !.fault = fault,
                                  !.backend = r.err, !.recursive = recursive,
                                  !.err = Wrap(r.err), !.list = r.keys]
        /\ UNCHANGED <<ctxVars, lockVars, store, known>>

----------------------------------------------------------------------------
\* a caller that keeps to one lock at a time and unlocks only what it locked
CallLockNew(t, n) == held[t] = {} /\ CallLock(t, n)
CallUnlockHeld(t, n) == n \in held[t] /\ CallUnlock(t, n)

Local == {t \in Threads : ProcOf(t) = "p"}

\* Adapter p called by its goroutines in any order, with any names.
Next ==
    \/ \E t \in Local, n \in Names : CallLock(t, n)
    \/ \E t \in Local, n \in Names : CallUnlock(t, n)
    \/ \E t \in Local : LockStep(t)
    \/ \E t \in Local : UnlockStep(t)

Spec == Init /\ [][Next]_vars

\* The fleet: adapters p and q on one bucket and prefix, every caller
\* unlocking only what it locked.
\* Unlock of a name its caller holds: the name is cached
UnlockHeldStep(t) ==
    \/ UnlockMu(t)
    \/ UnlockCached(t)
    \/ UnlockReleaseOk(t)
    \/ \E err \in {ErrCanceled, ErrBackend} : UnlockReleaseErr(t, err)

NextFleet ==
    \/ \E t \in Threads, n \in Names : CallLock(t, n)
    \/ \E t \in Threads, n \in Names : CallUnlockHeld(t, n)
    \/ \E t \in Threads : LockStep(t)
    \/ \E t \in Threads : UnlockHeldStep(t)

SpecFleet == Init /\ [][NextFleet]_vars

\* The fleet with mutex construction, acquire and release succeeding, and
\* callers that lock one name at a time and unlock what they hold.
LockOkStep(t) ==
    \/ LockMu(t)
    \/ LockNewMutexOk(t)
    \/ LockMuUnlock(t)
    \/ LockAcquireOk(t)

UnlockOkStep(t) ==
    \/ UnlockMu(t)
    \/ UnlockCached(t)
    \/ UnlockReleaseOk(t)

NextLive ==
    \/ \E t \in Threads, n \in Names : CallLockNew(t, n)
    \/ \E t \in Threads, n \in Names : CallUnlockHeld(t, n)
    \/ \E t \in Threads : LockOkStep(t)
    \/ \E t \in Threads : UnlockOkStep(t)

\* sync.Mutex hands gcs.mu to a waiting goroutine (starvation mode), the
\* distributed primitive is fair to a waiting acquire, a running call goes
\* on, and a caller holding a name calls Unlock.
Fairness ==
    \A t \in Threads :
        /\ SF_vars(LockMu(t) \/ UnlockMu(t) \/ LockAcquireOk(t))
        /\ WF_vars(\/ LockNewMutexOk(t) \/ LockMuUnlock(t)
                   \/ UnlockCached(t) \/ UnlockReleaseOk(t)
                   \/ \E n \in Names : CallUnlockHeld(t, n))

SpecLive == Init /\ [][NextLive]_vars /\ Fairness

\* Adapter p called in any order, scheduled fairly: sync.Mutex hands gcs.mu
\* to a goroutine that waits for it, and a goroutine inside the exclusive
\* section, which makes no blocking call there, runs on.
FairnessMu ==
    \A t \in Local :
        /\ SF_vars(LockMu(t) \/ UnlockMu(t))
        /\ WF_vars(\/ LockNewMutexOk(t) \/ LockNewMutexFail(t) \/ LockMuUnlock(t)
                   \/ UnlockNotCached(t) \/ UnlockCached(t))

SpecFair == Init /\ [][Next]_vars /\ FairnessMu

\* Adapter p with callers that cancel an acquire in progress; construction,
\* acquire and release do not fail otherwise.  A cancelled acquire returns.
NextCancel ==
    \/ \E t \in Local, n \in Names : CallLockNew(t, n)
    \/ \E t \in Local, n \in Names : CallUnlockHeld(t, n)
    \/ \E t \in Local : LockOkStep(t)
    \/ \E t \in Local : UnlockOkStep(t)
    \/ \E t \in Local : Cancel(t)
    \/ \E t \in Local : LockAcquireCanceled(t)

SpecCancel ==
    Init /\ [][NextCancel]_vars /\ \A t \in Local : WF_vars(LockAcquireCanceled(t))

\* The storage calls neither read nor write the lock state and the lock calls
\* neither read nor write the bucket, so each half is explored on its own.
NextStore ==
    \/ \E key \in Keys, value \in Payloads : Store(key, value)
    \/ \E key \in Keys : Load(key)
    \/ \E key \in Keys : Delete(key)
    \/ \E key \in Keys : Exists(key)
    \/ \E key \in Keys : Stat(key)
    \/ \E recursive \in BOOLEAN : List(<<>>, recursive)

SpecStore == Init /\ [][NextStore]_vars

\* One goroutine of adapter p making every call of the adapter in any order.
Solo == {"g1"}
SoloKeys == {<<"k">>}

NextFrame ==
    \/ \E t \in Solo, n \in Names : CallLock(t, n)
    \/ \E t \in Solo, n \in Names : CallUnlock(t, n)
    \/ \E t \in Solo : LockStep(t)
    \/ \E t \in Solo : UnlockStep(t)
    \/ \E key \in SoloKeys : Store(key, <<>>)
    \/ \E key \in SoloKeys : Load(key)
    \/ \E key \in SoloKeys : Delete(key)
    \/ \E key \in SoloKeys : Exists(key)
    \/ \E key \in SoloKeys : Stat(key)
    \/ \E recursive \in BOOLEAN : List(<<>>, recursive)

SpecFrame == Init /\ [][NextFrame]_vars

\* The listing fixture: the keys a/1, a/2, a/b/3 stored and deleted in any
\* order, and listed under every prefix in both modes.
InitList == InitAdapter /\ InitBucket(ListPhysKeys, ListKeys) /\ ctor = Built(Path)

NextList ==
    \/ \E key \in ListKeys : Store(key, <<>>)
    \/ \E key \in ListKeys : Delete(key)
    \/ \E prefix \in ListPrefixes, recursive \in BOOLEAN : List(prefix, recursive)

SpecList == InitList /\ [][NextList]_vars

\* One call of NewGCS, for every path.
NextNew ==
    \/ NewGCSSplit
    \/ NewClientFail
    \/ NewClientOk
    \/ TestPermissionsFail
    \/ TestPermissionsOk

SpecNew == InitNew /\ [][NextNew]_vars

----------------------------------------------------------------------------
(* Claims                                                                   *)

InUnlock(t) == pc[t] \in {"U101", "U102", "U109"}

\* a goroutine that has resolved its mutex uses the one the cache holds
UsesCached(t) ==
    pc[t] \in {"L92", "L94", "U109"} /\ lock[t] # NoInst =>
        /\ arg[t] \in DOMAIN locks[ProcOf(t)]
        /\ lock[t] = locks[ProcOf(t)][arg[t]]

OneInstancePerName ==
    /\ \A p \in Procs, n \in Names : made[p][n] <= 1
    /\ \A t \in Threads : UsesCached(t)

CacheStable ==
    \A p \in Procs : \A n \in DOMAIN locks[p] :
        n \in DOMAIN locks'[p] /\ locks'[p][n] = locks[p][n]

\* C1: in an adapter under any interleaving of Lock and Unlock calls, one
\* mutex instance at most is ever made for a name and every goroutine uses
\* the cached one; a cached entry is never replaced and never removed.
C1_CacheGrowsOnly == []OneInstancePerName /\ [][CacheStable]_vars

\* both names are cached and a later Lock has found its entry
C1_Witness ==
    /\ DOMAIN locks["p"] = Names
    /\ \E t \in Local : pc[t] = "L94" /\ ok[t]

SameInstance ==
    \A t1, t2 \in Threads :
        (/\ t1 # t2
         /\ ProcOf(t1) = ProcOf(t2)
         /\ pc[t1] = "L94" /\ pc[t2] = "L94"
         /\ arg[t1] = arg[t2]) =>
            /\ made[ProcOf(t1)][arg[t1]] = 1
            /\ arg[t1] \in DOMAIN locks[ProcOf(t1)]
            /\ lock[t1] = locks[ProcOf(t1)][arg[t1]]
            /\ lock[t2] = lock[t1]

\* C2: two goroutines of one adapter in Lock(n) at once lead to one cache
\* entry for n and call acquire on that one instance; with construction
\* succeeding, a fair primitive and holders that unlock, each Lock(n) call
\* returns with the lock held by its caller.
C2_ConcurrentLock ==
    /\ []SameInstance
    /\ \A t \in Threads : \A n \in Names :
           (pc[t] = "L77" /\ arg[t] = n) ~> (pc[t] = "idle" /\ n \in held[t])

\* both goroutines of p are in acquire on one name: one missed, one hit
C2_Witness ==
    /\ pc["g1"] = "L94" /\ pc["g2"] = "L94"
    /\ arg["g1"] = arg["g2"]
    /\ ok["g1"] # ok["g2"]

\* C3: with callers that unlock only what they locked, no two callers, of
\* one process or of two, are both between a successful Lock(n) and their
\* Unlock(n).
C3_MutualExclusion ==
    \A t1, t2 \in Threads : t1 # t2 => held[t1] \cap held[t2] = {}

\* a caller holds n while one of its process and one of the other process
\* wait in acquire for n
C3_Witness ==
    \E n \in Names :
        /\ n \in held["g1"]
        /\ pc["g2"] = "L94" /\ arg["g2"] = n
        /\ pc["h1"] = "L94" /\ arg["h1"] = n

\* C4: gcs.mu is held only during lookup-or-insert: no goroutine holds it
\* while its acquire or release is in flight, so whoever holds it is not
\* blocked in the distributed primitive.
C4_NoNetworkUnderMu ==
    /\ \A t \in Threads : pc[t] \in {"L94", "U109"} => mu[ProcOf(t)] # t
    /\ \A p \in Procs : mu[p] # NoThread => pc[mu[p]] \in {"L80", "L92", "U102"}

\* g1 waits in acquire for a name that is taken while g2 is inside the
\* exclusive section for another name
C4_Witness ==
    /\ pc["g1"] = "L94"
    /\ dlock[lock["g1"].name] # NoInst
    /\ mu["p"] = "g2"
    /\ arg["g2"] # arg["g1"]

\* C5: the first Lock(n) of a process that gets past the cache reports a
\* miss and makes the instance; every later one reports a hit and makes
\* none.
C5_MissThenHit ==
    /\ event.name = "certstorage_lockcache" => (event.hit <=> ~event.first)
    /\ \A p \in Procs, n \in Names :
           /\ made[p][n] <= 1
           /\ seen[p][n] => made[p][n] = 1

\* a second Lock(n) reported a hit, returned nil and its caller holds n
C5_Witness ==
    /\ event.name = "certstorage_lockcache" /\ event.hit
    /\ ret = Nil
    /\ \E t \in Local : pc[t] = "idle" /\ held[t] # {}
    /\ \A t \in Local : pc[t] = "idle"

BackendErrors == {ErrCanceled, ErrBackend, ErrConstruct}

NeverLockedUnlock ==
    \A t \in Threads :
        (InUnlock(t) /\ made[ProcOf(t)][arg[t]] = 0 /\ pc'[t] # pc[t]) =>
            /\ pc'[t] # "U109"
            /\ dlock' = dlock
            /\ pc'[t] = "idle" => ret' = ErrMutexNotExists

\* C6: Unlock(n) for a name the process never made a mutex for returns the
\* lock-not-cached error, which no wrapped backend error equals, and makes
\* no release call.
C6_UnlockNotCached ==
    /\ ErrMutexNotExists \notin {Wrap(e) : e \in BackendErrors} \cup {Nil}
    /\ [][NeverLockedUnlock]_vars

\* an Unlock of a name never locked has returned
C6_Witness ==
    /\ ret = ErrMutexNotExists
    /\ event.name = "certstorage_mutex_not_exists"
    /\ \A n \in Names : made["p"][n] = 0

ConstructionFails ==
    \A t \in Threads :
        (pc[t] = "L80" /\ pc'[t] = "idle") =>
            /\ ret' = Wrap(ErrConstruct)
            /\ ret' # Nil
            /\ locks' = locks
            /\ arg[t] \notin DOMAIN locks'[ProcOf(t)]
            /\ dlock' = dlock

ConstructsAgain ==
    \A t \in Threads :
        (pc[t] = "L77" /\ pc'[t] # pc[t] /\ made[ProcOf(t)][arg[t]] = 0) =>
            pc'[t] = "L80"

\* C7: when NewMutex fails, Lock returns an error without calling acquire
\* and leaves the cache as it was, with no entry for n; a later Lock(n)
\* goes to construction again.
C7_ConstructionFailure == [][ConstructionFails /\ ConstructsAgain]_vars

\* after a failed construction a later Lock is at construction again
C7_Witness ==
    /\ ret = Wrap(ErrConstruct)
    /\ \A n \in Names : made["p"][n] = 0
    /\ \E t \in Local : pc[t] = "L80"

\* C8: a Load(k) that the backend answers, made when the last Store(k, p)
\* succeeded and no Store or Delete of k followed, returns exactly p.
C8_RoundTrip ==
    (resp.op = "Load" /\ resp.fault = "none" /\ resp.before.st = "stored") =>
        resp.err = Nil /\ resp.data = resp.before.data

\* a stored payload of one byte was loaded
C8_Witness ==
    /\ resp.op = "Load" /\ resp.fault = "none"
    /\ resp.before.st = "stored" /\ Len(resp.before.data) = 1
    /\ resp.err = Nil

\* C9: for a key that is absent (never stored, or deleted), Load, Delete
\* and Stat that the backend answers return the not-exist error and no
\* other, and Exists returns false.
C9_AbsentKey ==
    (resp.fault = "none" /\ resp.before = Absent) =>
        /\ resp.op \in {"Load", "Delete", "Stat"} => resp.err = Wrap(FsErrNotExist)
        /\ resp.op = "Exists" => ~resp.exists
        /\ Wrap(FsErrNotExist) # Wrap(ErrBackend)

\* Delete of an absent key, while the other key is stored
C9_Witness ==
    /\ resp.op = "Delete" /\ resp.fault = "none"
    /\ resp.before = Absent
    /\ resp.err = Wrap(FsErrNotExist)
    /\ \E k \in Keys : k # resp.key /\ known[k].st = "stored"

\* C10: after a successful Store(k, p) with no Delete of k since, Exists(k)
\* is true and Stat(k) succeeds with Size = len(p) and the time the store
\* stamped, parsed; both for calls the backend answers.
C10_StoredKey ==
    (resp.fault = "none" /\ resp.before.st = "stored") =>
        /\ resp.op = "Exists" => resp.exists
        /\ resp.op = "Stat" =>
               /\ resp.err = Nil
               /\ resp.info.Size = Len(resp.before.data)
               /\ resp.info.Modified \in Times

\* Stat of a stored one-byte payload
C10_Witness ==
    /\ resp.op = "Stat" /\ resp.fault = "none"
    /\ resp.before.st = "stored" /\ Len(resp.before.data) = 1
    /\ resp.info.Size = 1

----------------------------------------------------------------------------
(* Construction                                                             *)

\* C12: NewGCS fails fast.  When the client cannot be built NewGCS returns
\* an error and no adapter, and the permission probe is never made; when
\* the probe fails NewGCS returns an error and no adapter; an adapter is
\* returned only after the probe has succeeded, and then without an error.
C12_FailFast ==
    ctor.pc = "done" =>
        /\ ctor.client = "failed" =>
               ctor.ret = NoGCS /\ ctor.err # Nil /\ ctor.probe = "none"
        /\ ctor.probe = "failed" => ctor.ret = NoGCS /\ ctor.err # Nil
        /\ ctor.ret # NoGCS =>
               ctor.client = "ok" /\ ctor.probe = "ok" /\ ctor.err = Nil
        /\ ctor.ret = NoGCS <=> ctor.err # Nil

C12_Witness ==
    ctor.pc = "done" /\ ctor.probe = "failed" /\ ctor.ret = NoGCS

Last(s) == s[Len(s)]

\* C13: for every path bucket[/prefix] the prefix NewGCS computes is empty
\* or ends with exactly one separator, and no mapped key (prefix + key)
\* starts with a separator.
C13_PrefixNormalized ==
    ctor.gcs # NoGCS =>
        LET pre == ctor.gcs.prefix IN
        /\ pre # <<>> =>
               /\ Last(pre) = "/"
               /\ Len(pre) > 1 => pre[Len(pre) - 1] # "/"
        /\ \A k \in Keys : (pre \o k)[1] # "/"

----------------------------------------------------------------------------
(* Listing                                                                  *)

\* the logical keys stored under the logical prefix, and those directly so
Descendants(prefix) ==
    {k \in ListKeys : store[gcs.prefix \o k].present /\ HasPrefix(k, prefix)}
Children(prefix) == {k \in Descendants(prefix) : DirectChild(k, prefix)}
Listed == {resp.list[i] : i \in 1..Len(resp.list)}

\* C11: a List the backend answers returns, as the backend names them, all
\* stored descendants of the mapped prefix when recursive and only the direct
\* children when not; with a/1, a/2 and a/b/3 stored, listing a/ gives three
\* keys recursively and two otherwise.
C11_ListModes ==
    (resp.op = "List" /\ resp.fault = "none") =>
        /\ resp.err = Nil
        /\ Len(resp.list) = Cardinality(Listed)
        /\ Listed = {gcs.prefix \o k :
                       k \in IF resp.recursive THEN Descendants(resp.key)
                             ELSE Children(resp.key)}
        /\ (resp.key = <<"a", "/">> /\ Descendants(resp.key) = ListKeys) =>
               Len(resp.list) = IF resp.recursive THEN 3 ELSE 2

C11_Witness ==
    /\ resp.op = "List" /\ resp.fault = "none" /\ ~resp.recursive
    /\ resp.key = <<"a", "/">>
    /\ Descendants(resp.key) = ListKeys
    /\ resp.list = <<gcs.prefix \o <<"a", "/", "1">>, gcs.prefix \o <<"a", "/", "2">> >>

----------------------------------------------------------------------------
(* Cancellation                                                             *)

CancelledInAcquire(t) == pc[t] = "L94" /\ cancelled[t]

\* C14: a Lock whose ctx is cancelled while it is blocked in the acquire
\* returns, its result is the primitive's cancellation error wrapped, and the
\* call has taken no lock: its caller does not hold the name afterwards.
C14_CancelledLock ==
    /\ [][\A t \in Local :
             (CancelledInAcquire(t) /\ pc'[t] # "L94") =>
                 /\ pc'[t] = "idle"
                 /\ ret' = Wrap(ErrCanceled)
                 /\ dlock' = dlock
                 /\ held'[t] = {}]_vars
    /\ \A t \in Local : CancelledInAcquire(t) ~> pc[t] = "idle"

C14_Witness ==
    /\ ret = Wrap(ErrCanceled)
    /\ pc["g2"] = "idle" /\ held["g2"] = {}
    /\ pc["g1"] = "idle" /\ held["g1"] = {<<"a">>}
    /\ dlock[gcs.prefix \o <<"a">>] # NoInst

----------------------------------------------------------------------------
(* Storage errors                                                           *)

Present(key) == store[gcs.prefix \o key].present

\* C15: Exists(key) is true exactly when the metadata probe succeeded, that
\* is when the backend answered and holds the mapped key; a probe that
\* fails, with not-found or in transport, gives false, and no error is
\* returned.
C15_ExistsTotal ==
    resp.op = "Exists" =>
        /\ resp.exists <=> resp.backend = Nil
        /\ resp.exists <=> (resp.fault = "none" /\ Present(resp.key))
        /\ resp.err = Nil

\* a stored key reported absent because the probe failed in transport
C15_Witness ==
    /\ resp.op = "Exists" /\ resp.fault = "transport"
    /\ Present(resp.key)
    /\ ~resp.exists

NotFound(err) == Is(err, FsErrNotExist)

\* C16: Load, Delete and Stat return not-found exactly when the backend
\* reported not-found; any other backend failure of Store, Load, Delete,
\* List or Stat comes back as that error wrapped, which is not not-found and
\* not success; a Load whose stream fails returns an error too.
C16_ErrorsClassified ==
    /\ resp.op \in {"Load", "Delete", "Stat"} =>
           (NotFound(resp.err) <=> Is(resp.backend, ErrNotFound))
    /\ (/\ resp.op \in {"Store", "Load", "Delete", "List", "Stat"}
        /\ resp.backend # Nil
        /\ ~Is(resp.backend, ErrNotFound)) =>
           /\ resp.err = <<"certstorage">> \o resp.backend
           /\ resp.err # Nil
           /\ ~NotFound(resp.err)
    /\ (resp.op = "Load" /\ resp.fault = "read") => resp.err # Nil

\* a Load of a stored key failing in transport
C16_Witness ==
    /\ resp.op = "Load" /\ resp.fault = "transport"
    /\ Present(resp.key)
    /\ resp.err = Wrap(ErrBackend)

\* C17: a Stat that succeeds returns Key = prefix + key and IsTerminal true,
\* with the size and time the headers state; a last-modified or
\* content-length header that does not parse makes Stat return the parse
\* error, never a defaulted value with success.
C17_StatInfo ==
    resp.op = "Stat" =>
        /\ resp.err = Nil =>
               /\ resp.info.Key = gcs.prefix \o resp.key
               /\ resp.info.IsTerminal
               /\ resp.fault = "none"
               /\ resp.info.Size = Len(store[gcs.prefix \o resp.key].data)
               /\ resp.info.Modified = store[gcs.prefix \o resp.key].mtime
        /\ (resp.backend = Nil /\ resp.fault = "badtime") =>
               resp.err = Wrap(ErrParseTime)
        /\ (resp.backend = Nil /\ resp.fault = "badsize") =>
               resp.err = Wrap(ErrParseInt)

\* a Stat whose content-length header does not parse
C17_Witness ==
    /\ resp.op = "Stat" /\ resp.fault = "badsize"
    /\ resp.err = Wrap(ErrParseInt)
    /\ resp.info.Key = gcs.prefix \o resp.key
    /\ resp.info.IsTerminal

----------------------------------------------------------------------------
(* gcs.mu                                                                   *)

WaitsForMu(t) == pc[t] \in {"L77", "U101"}
InsideMu(t) == pc[t] \in {"L80", "L92", "U102"}

\* C18: gcs.mu is held only by a goroutine between its gcs.mu.Lock() and the
\* gcs.mu.Unlock() of its path, so every return path of Lock and Unlock has
\* released it; under fair scheduling every call that waits for gcs.mu gets
\* past the exclusive section, and gcs.mu, once held, is released again.
C18_MuReleased ==
    /\ [](\A p \in Procs : mu[p] # NoThread =>
              ProcOf(mu[p]) = p /\ InsideMu(mu[p]))
    /\ [](\A t \in Local : InsideMu(t) => mu[ProcOf(t)] = t)
    /\ \A t \in Local : WaitsForMu(t) ~> ~(WaitsForMu(t) \/ InsideMu(t))
    /\ \A p \in Procs : mu[p] # NoThread ~> mu[p] = NoThread

\* Lock returned on its failure path while another goroutine waits for gcs.mu
C18_Witness ==
    /\ ret = Wrap(ErrConstruct)
    /\ pc["g1"] = "idle"
    /\ WaitsForMu("g2")
    /\ mu["p"] = NoThread

----------------------------------------------------------------------------
(* Unlock and the cache                                                     *)

Constructed(t) == made[ProcOf(t)][arg[t]] > 0

\* C19: Unlock(n) returns the not-cached error exactly when no earlier
\* Lock(n) of this process constructed n's mutex; otherwise it goes on to
\* release the cached instance, whether or not that instance, or this
\* caller, acquired the lock, and what it returns is the release result.
C19_UnlockLookup ==
    [][\A t \in Local :
          /\ (pc[t] = "U102" /\ pc'[t] # "U102") =>
                 IF Constructed(t)
                 THEN /\ pc'[t] = "U109"
                      /\ lock'[t] = locks[ProcOf(t)][arg[t]]
                      /\ dlock' = dlock
                 ELSE /\ pc'[t] = "idle"
                      /\ ret' = ErrMutexNotExists
                      /\ dlock' = dlock
          /\ (pc[t] = "U109" /\ pc'[t] # "U109") =>
                 /\ pc'[t] = "idle"
                 /\ ret' # ErrMutexNotExists
                 /\ \/ dlock' = dlock
                    \/ dlock' = [dlock EXCEPT ![lock[t].name] = NoInst]]_vars

\* Unlock about to release a cached instance whose lock nobody holds, its
\* caller never having acquired it
C19_Witness ==
    /\ pc["g1"] = "U109"
    /\ lock["g1"] = locks["p"][arg["g1"]]
    /\ dlock[lock["g1"].name] = NoInst
    /\ held["g1"] = {} /\ held["g2"] = {}

\* this step is Lock(n) caching the mutex it constructed for an uncached n
AddsEntry(t) ==
    LET p == ProcOf(t) IN
    /\ pc[t] = "L80" /\ pc'[t] = "L92"
    /\ arg[t] \notin DOMAIN locks[p]
    /\ DOMAIN locks'[p] = DOMAIN locks[p] \cup {arg[t]}
    /\ \A n \in DOMAIN locks[p] : locks'[p][n] = locks[p][n]
    /\ \A o \in Procs \ {p} : locks'[o] = locks[o]

\* C20: the cache changes only in the step of Lock(n) that has constructed
\* the mutex of an uncached n, and then by exactly n's entry; every step of
\* Unlock and every Store, Load, Delete, Exists, List and Stat leaves the
\* cache as it was.
C20_CacheFrame ==
    [][/\ locks' # locks => \E t \in Solo : AddsEntry(t)
       /\ resp' # resp => locks' = locks
       /\ \A t \in Solo :
              (InUnlock(t) /\ pc'[t] # pc[t]) => locks' = locks
       /\ \A t \in Solo :
              (pc[t] \in {"idle", "L77", "L92", "L94"} /\ pc'[t] # pc[t]) =>
                  locks' = locks]_vars

\* after Lock(a), an Unlock of the uncached b and a listing the cache holds
\* a's entry only
C20_Witness ==
    /\ DOMAIN locks["p"] = {<<"a">>}
    /\ made["p"][<<"a">>] = 1
    /\ ret = ErrMutexNotExists
    /\ resp.op = "List"
    /\ known[<<"k">>].st = "stored"

====
